---- MODULE Spec2Model ----
(***************************************************************************)
(* Model of the in-memory Todo repository (src/src/repositories.rs):      *)
(* a HashMap<i32, Todo> behind one Arc<RwLock<..>>, used by concurrent     *)
(* callers through create / find / all / update / delete.                  *)
(***************************************************************************)
EXTENDS Integers, FiniteSets, Sequences, TLC

(* ------------------------------ bounds -------------------------------- *)
NumCallers == 2
MaxStore == 2

Callers == 1..NumCallers
Texts == {"a", "b"}
\* ids a caller may pass to find / update / delete: stored ones and others
ArgIds == 1..(MaxStore + 1)

\* the repository (heap: what each Arc allocation holds) and its callers
\* (arc: the allocation each caller's handle points to)
VARIABLES heap, arc, pc, op, local, ret

\* observations of the calls made so far (no code reads them)
VARIABLES last, prev, before, assigned, live, scen, conc, got, done

prog == <<heap, arc, pc, op, local, ret>>

hist == <<last, prev, before, assigned, live, scen>>

vars == <<heap, arc, pc, op, local, ret, last, prev, before, assigned, live, scen,
          conc, got, done>>

histConc == <<conc, got>>

(* --------------------------- value types ------------------------------ *)
None == [tag |-> "None"]
Some(v) == [tag |-> "Some", val |-> v]
Ok(v) == [tag |-> "Ok", val |-> v]
Err(e) == [tag |-> "Err", val |-> e]
Unit == [unit |-> TRUE]
NoRet == [tag |-> "NoRet"]
Val(v) == [tag |-> "Val", val |-> v]
Vec(s) == [tag |-> "Vec", val |-> s]

NotFound(id) == [kind |-> "NotFound", id |-> id]

Todo(id, text, completed) == [id |-> id, text |-> text, completed |-> completed]

\* variant: a new Todo that starts out completed
TodoNewCompleted(id, text) == Todo(id, text, TRUE)

TodoNew(id, text) == Todo(id, text, FALSE)

CreateTodo == [text : Texts]

OptTexts == {None} \cup {Some(t) : t \in Texts}
OptBools == {None} \cup {Some(b) : b \in BOOLEAN}

UpdateTodo == [text : OptTexts, completed : OptBools]

UnwrapOr(o, d) == IF o.tag = "Some" THEN o.val ELSE d

(* ------------------------- HashMap operations ------------------------- *)
len(m) == Cardinality(DOMAIN m)

Get(m, k) == IF k \in DOMAIN m THEN Some(m[k]) ELSE None

Insert(m, k, v) == [x \in (DOMAIN m) \cup {k} |-> IF x = k THEN v ELSE m[x]]

\* variant: remove reports the entry and leaves it in the map
RemoveKeeps(m, k) == m

Remove(m, k) == [x \in (DOMAIN m) \ {k} |-> m[x]]

EmptyMap == [x \in {} |-> None]

(* ------------------------------- lock --------------------------------- *)
NoWriter == 0

Unlocked == [writer |-> NoWriter, readers |-> {}]

IsWrite(o) == o.name \in {"create", "update", "delete"}

IsRead(o) == o.name \in {"find", "all"}

(* ------------------------ handles and the heap ------------------------ *)
\* the allocation made by TodoRepositoryForMemory::new()
Root == 1

\* a caller that holds no handle yet
NoHandle == 0

\* Arc::default(): an unlocked RwLock around an empty map
ArcDefault == [data |-> EmptyMap, lock |-> Unlocked]

\* the map and the lock behind caller c's handle
Data(c) == heap[arc[c]].data

Lock(c) == heap[arc[c]].lock

\* the store and the lock of the repository made by new()
store == heap[Root].data

lock == heap[Root].lock

(* ------------------------------- Init --------------------------------- *)
NoOp == [name |-> "none"]

NoEvent == [caller |-> 0, op |-> NoOp, ret |-> NoRet]

Init ==
    /\ heap = [a \in {Root} |-> ArcDefault]
    /\ arc = [c \in Callers |-> IF c = 1 THEN Root ELSE NoHandle]
    /\ pc = [c \in Callers |-> "idle"]
    /\ op = [c \in Callers |-> NoOp]
    /\ local = [c \in Callers |-> None]
    /\ ret = [c \in Callers |-> NoRet]
    /\ last = NoEvent
    /\ prev = NoOp
    /\ before = EmptyMap
    /\ assigned = {}
    /\ live = {}
    /\ scen = 0
    /\ conc = [c \in Callers |-> {}]
    /\ got = [c \in Callers |-> NoRet]
    /\ done = [c \in Callers |-> NoOp]

(* ------------------------------ actions ------------------------------- *)
Ops ==
    {[name |-> "create", payload |-> p] : p \in CreateTodo}
    \cup {[name |-> "find", id |-> i] : i \in ArgIds}
    \cup {[name |-> "all"]}
    \cup {[name |-> "update", id |-> i, payload |-> p] : i \in ArgIds, p \in UpdateTodo}
    \cup {[name |-> "delete", id |-> i] : i \in ArgIds}

\* variant: clone copies the container into a new allocation
CloneDeep(c, d) ==
    /\ pc[c] = "idle"
    /\ arc[c] = NoHandle
    /\ arc[d] # NoHandle
    /\ LET a == Cardinality(DOMAIN heap) + 1
       IN /\ heap' = [x \in (DOMAIN heap) \cup {a} |->
                         IF x = a THEN [data |-> Data(d), lock |-> Unlocked]
                         ELSE heap[x]]
          /\ arc' = [arc EXCEPT ![c] = a]
    /\ UNCHANGED <<pc, op, local, ret>>

\* #[derive(Clone)], line 63: caller c gets a clone of caller d's handle;
\* the clone of the Arc field points to the same allocation
Clone(c, d) ==
    /\ pc[c] = "idle"
    /\ arc[c] = NoHandle
    /\ arc[d] # NoHandle
    /\ arc' = [arc EXCEPT ![c] = arc[d]]
    /\ UNCHANGED <<heap, pc, op, local, ret>>

\* callers whose create has been invoked and has not yet inserted its Todo
CreatesInFlight == {d \in Callers : pc[d] \in {"wait", "cs"} /\ op[d].name = "create"}

\* a caller invokes a repository method, one of O, on its handle (no create
\* is invoked once the entries and the creates in flight number cap)
Call(c, O, cap) ==
    /\ pc[c] = "idle"
    /\ arc[c] # NoHandle
    /\ \E o \in O :
          /\ o.name = "create" => len(Data(c)) + Cardinality(CreatesInFlight) < cap
          /\ op' = [op EXCEPT ![c] = o]
    /\ pc' = [pc EXCEPT ![c] = "wait"]
    /\ UNCHANGED <<heap, arc, local, ret>>

\* variant: the write guard is granted whenever no reader holds the lock
write_store_ref_no_writer_check(c) ==
    /\ pc[c] = "wait"
    /\ IsWrite(op[c])
    /\ Lock(c).readers = {}
    /\ heap' = [heap EXCEPT ![arc[c]].lock.writer = c]
    /\ pc' = [pc EXCEPT ![c] = "cs"]
    /\ UNCHANGED <<arc, op, local, ret>>

\* self.store.write(): granted when nobody holds the lock
write_store_ref(c) ==
    /\ pc[c] = "wait"
    /\ IsWrite(op[c])
    /\ Lock(c).writer = NoWriter
    /\ Lock(c).readers = {}
    /\ heap' = [heap EXCEPT ![arc[c]].lock.writer = c]
    /\ pc' = [pc EXCEPT ![c] = "cs"]
    /\ UNCHANGED <<arc, op, local, ret>>

\* variant: the read guard is granted at once
read_store_ref_no_wait(c) ==
    /\ pc[c] = "wait"
    /\ IsRead(op[c])
    /\ heap' = [heap EXCEPT ![arc[c]].lock.readers = @ \cup {c}]
    /\ pc' = [pc EXCEPT ![c] = "cs"]
    /\ UNCHANGED <<arc, op, local, ret>>

\* self.store.read(): granted when no writer holds the lock
read_store_ref(c) ==
    /\ pc[c] = "wait"
    /\ IsRead(op[c])
    /\ Lock(c).writer = NoWriter
    /\ heap' = [heap EXCEPT ![arc[c]].lock.readers = @ \cup {c}]
    /\ pc' = [pc EXCEPT ![c] = "cs"]
    /\ UNCHANGED <<arc, op, local, ret>>

\* variant: one more than the largest id stored
NewIdAfterMax(m) ==
    IF DOMAIN m = {} THEN 1
    ELSE (CHOOSE k \in DOMAIN m : \A x \in DOMAIN m : x <= k) + 1

\* line 87: the id given to the next Todo ((store.len() + 1) as i32; the cast
\* changes nothing below 2^31 entries, far above MaxStore)
NewId(m) == len(m) + 1

\* variant: the Todo is inserted under the count of entries, not under its id
create_under_len(c) ==
    /\ pc[c] = "cs"
    /\ op[c].name = "create"
    /\ LET id == NewId(Data(c))
           todo == TodoNew(id, op[c].payload.text)
       IN /\ heap' = [heap EXCEPT ![arc[c]].data = Insert(@, len(@), todo)]
          /\ ret' = [ret EXCEPT ![c] = Val(todo)]
    /\ pc' = [pc EXCEPT ![c] = "rel"]
    /\ UNCHANGED <<arc, op, local>>

create(c) ==
    /\ pc[c] = "cs"
    /\ op[c].name = "create"
    /\ LET id == NewId(Data(c))
           todo == TodoNew(id, op[c].payload.text)
       IN /\ heap' = [heap EXCEPT ![arc[c]].data = Insert(@, id, todo)]
          /\ ret' = [ret EXCEPT ![c] = Val(todo)]
    /\ pc' = [pc EXCEPT ![c] = "rel"]
    /\ UNCHANGED <<arc, op, local>>

find(c) ==
    /\ pc[c] = "cs"
    /\ op[c].name = "find"
    /\ ret' = [ret EXCEPT ![c] = Get(Data(c), op[c].id)]
    /\ pc' = [pc EXCEPT ![c] = "rel"]
    /\ UNCHANGED <<heap, arc, op, local>>

\* the keys all's iterator has passed and the clones it has yielded
Iter(keys, vals) == [keys |-> keys, vals |-> vals]

IterOf(c) == IF local[c].tag = "Some" THEN local[c].val ELSE Iter({}, <<>>)

\* all, line 100: store.values() yields the next value, in any order, and
\* its clone is pushed
all_next(c) ==
    /\ pc[c] = "cs"
    /\ op[c].name = "all"
    /\ \E k \in (DOMAIN Data(c)) \ IterOf(c).keys :
          local' = [local EXCEPT ![c] =
                       Some(Iter(IterOf(c).keys \cup {k},
                                 Append(IterOf(c).vals, Data(c)[k])))]
    /\ UNCHANGED <<heap, arc, pc, op, ret>>

\* variant: the Vec is returned after the first value
all_first(c) ==
    /\ pc[c] = "cs"
    /\ op[c].name = "all"
    /\ DOMAIN Data(c) # {} => IterOf(c).keys # {}
    /\ ret' = [ret EXCEPT ![c] = Vec(IterOf(c).vals)]
    /\ local' = [local EXCEPT ![c] = None]
    /\ pc' = [pc EXCEPT ![c] = "rel"]
    /\ UNCHANGED <<heap, arc, op>>

\* all, lines 100-101: the iterator is exhausted and the Vec is returned
all(c) ==
    /\ pc[c] = "cs"
    /\ op[c].name = "all"
    /\ (DOMAIN Data(c)) \ IterOf(c).keys = {}
    /\ ret' = [ret EXCEPT ![c] = Vec(IterOf(c).vals)]
    /\ local' = [local EXCEPT ![c] = None]
    /\ pc' = [pc EXCEPT ![c] = "rel"]
    /\ UNCHANGED <<heap, arc, op>>

\* variant: an absent entry is taken as an empty Todo (an upsert)
update_get_upsert(c) ==
    /\ pc[c] = "cs"
    /\ op[c].name = "update"
    /\ LET found == Get(Data(c), op[c].id)
       IN local' = [local EXCEPT ![c] =
                       IF found.tag = "None"
                       THEN Some(TodoNew(op[c].id, "a")) ELSE found]
    /\ pc' = [pc EXCEPT ![c] = "cs2"]
    /\ UNCHANGED <<heap, arc, op, ret>>

\* update, line 105: look the entry up; `?` returns NotFound when absent
update_get(c) ==
    /\ pc[c] = "cs"
    /\ op[c].name = "update"
    /\ LET found == Get(Data(c), op[c].id)
       IN IF found.tag = "None"
          THEN /\ ret' = [ret EXCEPT ![c] = Err(NotFound(op[c].id))]
               /\ pc' = [pc EXCEPT ![c] = "rel"]
               /\ UNCHANGED local
          ELSE /\ local' = [local EXCEPT ![c] = found]
               /\ pc' = [pc EXCEPT ![c] = "cs2"]
               /\ UNCHANGED ret
    /\ UNCHANGED <<heap, arc, op>>

\* variant: the payload's completed is dropped
MergeTextOnly(id, payload, old) ==
    Todo(id, UnwrapOr(payload.text, old.text), old.completed)

\* update, lines 106-112: the replacement Todo
Merge(id, payload, old) ==
    Todo(id, UnwrapOr(payload.text, old.text),
             UnwrapOr(payload.completed, old.completed))

\* update, lines 106-114: merge the payload and overwrite the entry
update_insert(c) ==
    /\ pc[c] = "cs2"
    /\ LET todo == Merge(op[c].id, op[c].payload, local[c].val)
       IN /\ heap' = [heap EXCEPT ![arc[c]].data = Insert(@, op[c].id, todo)]
          /\ ret' = [ret EXCEPT ![c] = Ok(todo)]
    /\ local' = [local EXCEPT ![c] = None]
    /\ pc' = [pc EXCEPT ![c] = "rel"]
    /\ UNCHANGED <<arc, op>>

\* variant: the result of remove is not turned into NotFound
delete_always_ok(c) ==
    /\ pc[c] = "cs"
    /\ op[c].name = "delete"
    /\ heap' = [heap EXCEPT ![arc[c]].data = Remove(@, op[c].id)]
    /\ ret' = [ret EXCEPT ![c] = Ok(Unit)]
    /\ pc' = [pc EXCEPT ![c] = "rel"]
    /\ UNCHANGED <<arc, op, local>>

delete(c) ==
    /\ pc[c] = "cs"
    /\ op[c].name = "delete"
    /\ LET id == op[c].id
           removed == Get(Data(c), id)
       IN /\ heap' = [heap EXCEPT ![arc[c]].data = Remove(@, id)]
          /\ ret' = [ret EXCEPT ![c] =
                        IF removed.tag = "None" THEN Err(NotFound(id)) ELSE Ok(Unit)]
    /\ pc' = [pc EXCEPT ![c] = "rel"]
    /\ UNCHANGED <<arc, op, local>>

\* variant: a method that returns an error keeps its guard
Return_keeps_guard_on_err(c) ==
    /\ pc[c] = "rel"
    /\ heap' = IF ret[c].tag = "Err" THEN heap
               ELSE IF IsWrite(op[c])
               THEN [heap EXCEPT ![arc[c]].lock.writer = NoWriter]
               ELSE [heap EXCEPT ![arc[c]].lock.readers = @ \ {c}]
    /\ pc' = [pc EXCEPT ![c] = "idle"]
    /\ op' = [op EXCEPT ![c] = NoOp]
    /\ ret' = [ret EXCEPT ![c] = NoRet]
    /\ UNCHANGED <<arc, local>>

\* the method returns: the guard is dropped, on every path, and the result
\* passes to the caller
Return(c) ==
    /\ pc[c] = "rel"
    /\ heap' = IF IsWrite(op[c])
               THEN [heap EXCEPT ![arc[c]].lock.writer = NoWriter]
               ELSE [heap EXCEPT ![arc[c]].lock.readers = @ \ {c}]
    /\ pc' = [pc EXCEPT ![c] = "idle"]
    /\ op' = [op EXCEPT ![c] = NoOp]
    /\ ret' = [ret EXCEPT ![c] = NoRet]
    /\ UNCHANGED <<arc, local>>

(* ------------------------------ history ------------------------------- *)
\* last: the latest completed call; before: the store it found;
\* prev: of the call completed before it, its name, and what it was to
\* create and created, or the id it was to delete
Summary(e) ==
    IF e.op.name = "create"
    THEN [name |-> "create", payload |-> e.op.payload, ret |-> e.ret.val]
    ELSE IF e.op.name = "delete" THEN [name |-> "delete", id |-> e.op.id]
    ELSE [name |-> e.op.name]

\* the calls of test::todo_crud_scenario, followed by a find of the deleted id
Scenario ==
    << [name |-> "create", payload |-> [text |-> "a"]],
       [name |-> "find", id |-> 1],
       [name |-> "all"],
       [name |-> "update", id |-> 1,
        payload |-> [text |-> Some("b"), completed |-> Some(TRUE)]],
       [name |-> "delete", id |-> 1],
       [name |-> "find", id |-> 1] >>

\* scen = k: the calls made on the fresh store so far are exactly the first k
\* calls of Scenario; ScenarioLeft once they are not
ScenarioLeft == Len(Scenario) + 1

\* what an observer records when caller c's operation takes effect
Observe(c) ==
    IF pc'[c] = "rel"
    THEN /\ last' = [caller |-> c, op |-> op[c], ret |-> ret'[c]]
         /\ prev' = Summary(last)
         /\ before' = Data(c)
         /\ assigned' = IF op[c].name = "create"
                        THEN assigned \cup {ret'[c].val.id} ELSE assigned
         /\ live' = IF op[c].name = "create" THEN live \cup {ret'[c].val.id}
                    ELSE IF op[c].name = "delete" /\ ret'[c].tag = "Ok"
                         THEN live \ {op[c].id}
                         ELSE live
         /\ scen' = IF scen < Len(Scenario) /\ op[c] = Scenario[scen + 1]
                    THEN scen + 1 ELSE ScenarioLeft
    ELSE UNCHANGED hist

(* -------------------- one caller, every operation --------------------- *)
SeqCallers == {1}

Next ==
    \E c \in SeqCallers :
        \/ Call(c, Ops, MaxStore) /\ UNCHANGED <<hist, histConc, done>>
        \/ write_store_ref(c) /\ UNCHANGED <<hist, histConc, done>>
        \/ read_store_ref(c) /\ UNCHANGED <<hist, histConc, done>>
        \/ create(c) /\ Observe(c) /\ UNCHANGED <<histConc, done>>
        \/ find(c) /\ Observe(c) /\ UNCHANGED <<histConc, done>>
        \/ all_next(c) /\ UNCHANGED <<hist, histConc, done>>
        \/ all(c) /\ Observe(c) /\ UNCHANGED <<histConc, done>>
        \/ update_get(c) /\ Observe(c) /\ UNCHANGED <<histConc, done>>
        \/ update_insert(c) /\ Observe(c) /\ UNCHANGED <<histConc, done>>
        \/ delete(c) /\ Observe(c) /\ UNCHANGED <<histConc, done>>
        \/ Return(c) /\ UNCHANGED <<hist, histConc, done>>

Spec == Init /\ [][Next]_vars

(* ------------------------ concurrent callers -------------------------- *)
ConcPayloads == {[text |-> None, completed |-> Some(TRUE)]}

ConcIds == 1..MaxStore

ConcOps ==
    {[name |-> "create", payload |-> [text |-> "a"]]}
    \cup {[name |-> "find", id |-> i] : i \in ConcIds}
    \cup {[name |-> "all"]}
    \cup {[name |-> "update", id |-> i, payload |-> p] : i \in ConcIds, p \in ConcPayloads}
    \cup {[name |-> "delete", id |-> i] : i \in ConcIds}

\* callers whose create call has been invoked and has not returned
PendingCreates == {d \in Callers : pc[d] # "idle" /\ op[d].name = "create"}

\* conc[c]: the callers whose latest call is a create that overlapped c's
\* latest call, itself a create; got[c]: what that create returned to c
Overlap(c) ==
    LET P == PendingCreates \ {c}
    IN /\ conc' = [d \in Callers |->
                     IF op'[c].name = "create"
                     THEN IF d = c THEN P
                          ELSE IF d \in P THEN conc[d] \cup {c} ELSE conc[d] \ {c}
                     ELSE IF d = c THEN {} ELSE conc[d] \ {c}]
       /\ got' = [got EXCEPT ![c] = NoRet]

Deliver(c) ==
    /\ got' = [got EXCEPT ![c] = IF op[c].name = "create" THEN ret[c] ELSE NoRet]
    /\ UNCHANGED conc

ConcNext ==
    \E c \in Callers :
        \/ \E d \in Callers : Clone(c, d) /\ UNCHANGED <<hist, histConc, done>>
        \/ Call(c, ConcOps, MaxStore + 1) /\ Overlap(c) /\ UNCHANGED <<hist, done>>
        \/ write_store_ref(c) /\ UNCHANGED <<hist, histConc, done>>
        \/ read_store_ref(c) /\ UNCHANGED <<hist, histConc, done>>
        \/ create(c) /\ UNCHANGED <<hist, histConc, done>>
        \/ find(c) /\ UNCHANGED <<hist, histConc, done>>
        \/ all_next(c) /\ UNCHANGED <<hist, histConc, done>>
        \/ all(c) /\ UNCHANGED <<hist, histConc, done>>
        \/ update_get(c) /\ UNCHANGED <<hist, histConc, done>>
        \/ update_insert(c) /\ UNCHANGED <<hist, histConc, done>>
        \/ delete(c) /\ UNCHANGED <<hist, histConc, done>>
        \/ Return(c) /\ Deliver(c) /\ UNCHANGED <<hist, done>>

SpecConc == Init /\ [][ConcNext]_vars

(* ------------------ concurrent callers, lock and order ---------------- *)
\* caller c's call asks for its guard
Acquire(c) ==
    (write_store_ref(c) \/ read_store_ref(c)) /\ UNCHANGED <<hist, histConc, done>>

\* caller c's call runs on from where it holds its guard, up to its return
Runs(c) ==
    /\ \/ create(c)
       \/ find(c)
       \/ all_next(c)
       \/ all(c)
       \/ update_get(c)
       \/ update_insert(c)
       \/ delete(c)
       \/ Return(c)
    /\ UNCHANGED <<hist, histConc, done>>

ParNext ==
    \E c \in Callers :
        \/ \E d \in Callers : Clone(c, d) /\ UNCHANGED <<hist, histConc, done>>
        \/ Call(c, ConcOps, MaxStore) /\ UNCHANGED <<hist, histConc, done>>
        \/ Acquire(c)
        \/ Runs(c)

SpecPar == Init /\ [][ParNext]_vars

\* the same callers, whose threads keep running: a thread that holds its
\* guard is scheduled until it has returned; nothing is assumed of the order
\* in which the lock admits the waiting calls
SpecLive == Init /\ [][ParNext]_vars /\ \A c \in Callers : WF_vars(Runs(c))

(* ------------- concurrent callers, what each saw returned ------------- *)
\* done[c]: of caller c's latest returned call, its name, and the id it
\* created, or the id it looked for and whether it found it
Brief(o, r) ==
    IF o.name = "create" THEN [name |-> "create", id |-> r.val.id]
    ELSE IF o.name = "find" THEN [name |-> "find", id |-> o.id, found |-> r.tag = "Some"]
    ELSE [name |-> o.name]

Finish(c) == done' = [done EXCEPT ![c] = Brief(op[c], ret[c])]

SeenNext ==
    \E c \in Callers :
        \/ \E d \in Callers : Clone(c, d) /\ UNCHANGED <<hist, histConc, done>>
        \/ Call(c, ConcOps, MaxStore) /\ UNCHANGED <<hist, histConc, done>>
        \/ write_store_ref(c) /\ UNCHANGED <<hist, histConc, done>>
        \/ read_store_ref(c) /\ UNCHANGED <<hist, histConc, done>>
        \/ create(c) /\ UNCHANGED <<hist, histConc, done>>
        \/ find(c) /\ UNCHANGED <<hist, histConc, done>>
        \/ all_next(c) /\ UNCHANGED <<hist, histConc, done>>
        \/ all(c) /\ UNCHANGED <<hist, histConc, done>>
        \/ update_get(c) /\ UNCHANGED <<hist, histConc, done>>
        \/ update_insert(c) /\ UNCHANGED <<hist, histConc, done>>
        \/ delete(c) /\ UNCHANGED <<hist, histConc, done>>
        \/ Return(c) /\ Finish(c) /\ UNCHANGED <<hist, histConc>>

SpecSeen == Init /\ [][SeenNext]_vars

(* ======================= properties of one store ====================== *)
\* last is a completed create / find / ... call; store is then the store
\* that call left and before the store it found
Did(name) == last.op.name = name

IsNotFound(r, id) == r.tag = "Err" /\ r.val.kind = "NotFound" /\ r.val.id = id

\* C1: create returns a Todo whose id no stored Todo had immediately
\* before the call, and the store then holds the returned Todo under that id
C1_CreateIdFresh ==
    Did("create") =>
        /\ last.ret.val.id \notin DOMAIN before
        /\ last.ret.val.id \in DOMAIN store
        /\ store[last.ret.val.id] = last.ret.val

\* C2: an id is never reused: no create returns an id that an earlier
\* create returned, whatever was deleted in between
C2_IdNeverReused ==
    [][\A c \in Callers :
          (pc[c] = "cs" /\ op[c].name = "create" /\ pc'[c] = "rel")
              => ret'[c].val.id \notin assigned]_vars

\* C3: create leaves every Todo that was stored before it in the store,
\* unchanged, and the stored count grows by exactly one
C3_CreateKeepsOthers ==
    Did("create") =>
        /\ \A k \in DOMAIN before : k \in DOMAIN store /\ store[k] = before[k]
        /\ Cardinality(DOMAIN store) = Cardinality(DOMAIN before) + 1

\* C4: every Todo returned by find or all has an id that a create assigned
\* and that has not been deleted since; find of any other id returns absence
C4_ReturnedAreLive ==
    /\ Did("find") =>
          /\ last.ret.tag = "Some" => last.ret.val.id \in live
          /\ last.op.id \notin live => last.ret.tag = "None"
    /\ Did("all") =>
          \A i \in 1..Len(last.ret.val) : last.ret.val[i].id \in live

C4_Witness ==
    /\ Did("find")
    /\ last.ret.tag = "Some"
    /\ assigned \ live # {}

\* C5: create followed at once by find of the returned id yields the Todo
\* create returned, with the payload's text and completed = false
C5_CreateThenFind ==
    (prev.name = "create" /\ Did("find") /\ last.op.id = prev.ret.id) =>
        /\ last.ret.tag = "Some"
        /\ last.ret.val = prev.ret
        /\ last.ret.val.text = prev.payload.text
        /\ last.ret.val.completed = FALSE

C5_Witness ==
    /\ prev.name = "create"
    /\ Did("find")
    /\ last.op.id = prev.ret.id
    /\ last.ret.tag = "Some"
    /\ Cardinality(DOMAIN store) > 1

\* C6: update of an id that is not stored returns NotFound carrying that id
\* and leaves the store unchanged
C6_UpdateNotFound ==
    (Did("update") /\ last.op.id \notin DOMAIN before) =>
        /\ IsNotFound(last.ret, last.op.id)
        /\ store = before

C6_Witness ==
    /\ Did("update")
    /\ last.op.id \notin DOMAIN before
    /\ DOMAIN before # {}
    /\ last.ret.tag = "Err"

\* C7: delete of an id that is not stored returns NotFound carrying that id
\* and leaves the store unchanged
C7_DeleteNotFound ==
    (Did("delete") /\ last.op.id \notin DOMAIN before) =>
        /\ IsNotFound(last.ret, last.op.id)
        /\ store = before

C7_Witness ==
    /\ Did("delete")
    /\ last.op.id \notin DOMAIN before
    /\ DOMAIN before # {}
    /\ last.ret.tag = "Err"

\* C8: update of a stored id succeeds and returns and stores a Todo with
\* the same id, the payload's text if present and the prior text otherwise,
\* the payload's completed if present and the prior value otherwise
C8_PartialUpdate ==
    (Did("update") /\ last.op.id \in DOMAIN before) =>
        LET old == before[last.op.id]
            p == last.op.payload
        IN /\ last.ret.tag = "Ok"
           /\ last.ret.val.id = last.op.id
           /\ last.ret.val.text = IF p.text.tag = "Some" THEN p.text.val ELSE old.text
           /\ last.ret.val.completed =
                 IF p.completed.tag = "Some" THEN p.completed.val ELSE old.completed
           /\ last.op.id \in DOMAIN store
           /\ store[last.op.id] = last.ret.val

\* update(id, {text: None, completed: Some(true)}) of an open Todo "b"
C8_Witness ==
    /\ Did("update")
    /\ last.op.id \in DOMAIN before
    /\ last.op.payload = [text |-> None, completed |-> Some(TRUE)]
    /\ before[last.op.id].text = "b"
    /\ before[last.op.id].completed = FALSE
    /\ last.ret.tag = "Ok"

\* C9: of two delete(id) calls in a row the second returns not-found and
\* leaves the store as the first left it
C9_DeleteTwice ==
    (prev.name = "delete" /\ Did("delete") /\ last.op.id = prev.id) =>
        /\ IsNotFound(last.ret, last.op.id)
        /\ store = before

\* the first of the two removed a stored Todo and others remain
C9_Witness ==
    /\ prev.name = "delete"
    /\ Did("delete")
    /\ last.op.id = prev.id
    /\ last.op.id \in assigned
    /\ DOMAIN store # {}

\* C13: on a fresh store the scenario's calls return, in turn, the Todo
\* (1, text, false); the same from find(1); exactly that one value from all();
\* (1, new text, true) from update; success from delete(1); absence from find(1)
C13_Scenario ==
    /\ scen = 1 => last.ret = [tag |-> "Val", val |-> [id |-> 1, text |-> "a", completed |-> FALSE]]
    /\ scen = 2 => last.ret = [tag |-> "Some", val |-> [id |-> 1, text |-> "a", completed |-> FALSE]]
    /\ scen = 3 => last.ret = [tag |-> "Vec", val |-> <<[id |-> 1, text |-> "a", completed |-> FALSE]>>]
    /\ scen = 4 => last.ret = [tag |-> "Ok", val |-> [id |-> 1, text |-> "b", completed |-> TRUE]]
    /\ scen = 5 => last.ret.tag = "Ok"
    /\ scen = 6 => last.ret.tag = "None"

C13_Witness == scen = 6 /\ Did("find") /\ store = EmptyMap

\* C14: all() returns every stored Todo exactly once and nothing else (so
\* nothing on a fresh store); all() and find() leave the store unchanged
C14_AllReturnsStore ==
    /\ Did("all") =>
          /\ Len(last.ret.val) = Cardinality(DOMAIN before)
          /\ \A k \in DOMAIN before :
                Cardinality({i \in 1..Len(last.ret.val) : last.ret.val[i] = before[k]}) = 1
          /\ \A i \in 1..Len(last.ret.val) :
                \E k \in DOMAIN before : last.ret.val[i] = before[k]
          /\ store = before
    /\ Did("find") => store = before

C14_Witness == Did("all") /\ Len(last.ret.val) = 2 /\ last.ret.val[1].id = 2

\* C15: no two stored Todos have the same id, and every Todo is stored
\* under the key equal to its id
C15_KeysAreIds ==
    /\ \A k \in DOMAIN store : store[k].id = k
    /\ \A j, k \in DOMAIN store : j # k => store[j].id # store[k].id

\* a create has just overwritten the Todo stored under the id it computed
C15_Witness ==
    /\ Did("create")
    /\ last.ret.val.id \in DOMAIN before
    /\ store[last.ret.val.id] = last.ret.val

(* ----------------------- HTTP adapter (handlers) ---------------------- *)
CREATED == "StatusCode::CREATED"
OK == "StatusCode::OK"
NOT_FOUND == "StatusCode::NOT_FOUND"
NO_CONTENT == "StatusCode::NO_CONTENT"

NoBody == [tag |-> "NoBody"]
Json(v) == [tag |-> "Json", val |-> v]

\* each handler, from what its repository call returned (r) to its response
create_todo(r) == [status |-> CREATED, body |-> Json(r.val)]

find_todo(r) ==
    IF r.tag = "None" THEN [status |-> NOT_FOUND, body |-> NoBody]
    ELSE [status |-> OK, body |-> Json(r.val)]

all_todo(r) == [status |-> OK, body |-> Json(r.val)]

\* variant: a successful update is answered with OK
update_todo_ok(r) ==
    IF r.tag = "Err" THEN [status |-> NOT_FOUND, body |-> NoBody]
    ELSE [status |-> OK, body |-> Json(r.val)]

update_todo(r) ==
    IF r.tag = "Err" THEN [status |-> NOT_FOUND, body |-> NoBody]
    ELSE [status |-> CREATED, body |-> Json(r.val)]

delete_todo(r) ==
    IF r.tag = "Ok" THEN [status |-> NO_CONTENT, body |-> NoBody]
    ELSE [status |-> NOT_FOUND, body |-> NoBody]

\* the response of the handler whose repository call completed last
Response ==
    IF Did("create") THEN create_todo(last.ret)
    ELSE IF Did("find") THEN find_todo(last.ret)
    ELSE IF Did("all") THEN all_todo(last.ret)
    ELSE IF Did("update") THEN update_todo(last.ret)
    ELSE delete_todo(last.ret)

\* C16: find, update and delete respond "not found" exactly when the
\* repository reported absence / NotFound for the id, which is exactly when
\* the store did not hold the id; otherwise find responds "ok" with the Todo,
\* update "created" with the updated Todo, delete "no content"; create always
\* responds "created" and all always "ok"
C16_StatusMapping ==
    /\ Did("create") => Response = [status |-> CREATED, body |-> Json(last.ret.val)]
    /\ Did("all") => Response = [status |-> OK, body |-> Json(last.ret.val)]
    /\ Did("find") =>
          /\ Response.status = NOT_FOUND <=> last.ret = None
          /\ Response.status = NOT_FOUND <=> last.op.id \notin DOMAIN before
          /\ Response.status # NOT_FOUND =>
                Response = [status |-> OK, body |-> Json(before[last.op.id])]
    /\ Did("update") =>
          /\ Response.status = NOT_FOUND <=> IsNotFound(last.ret, last.op.id)
          /\ Response.status = NOT_FOUND <=> last.op.id \notin DOMAIN before
          /\ Response.status # NOT_FOUND =>
                Response = [status |-> CREATED, body |-> Json(store[last.op.id])]
    /\ Did("delete") =>
          /\ Response.status = NOT_FOUND <=> IsNotFound(last.ret, last.op.id)
          /\ Response.status = NOT_FOUND <=> last.op.id \notin DOMAIN before
          /\ Response.status # NOT_FOUND =>
                Response = [status |-> NO_CONTENT, body |-> NoBody]

\* the update handler has responded "created" with a Todo that the update
\* changed
C16_Witness ==
    /\ Did("update")
    /\ Response.status = CREATED
    /\ Response.body.val = store[last.op.id]
    /\ store[last.op.id] # before[last.op.id]

\* C18: create returns the id (number of entries stored before the call) + 1,
\* so after create, create, delete(1) the next create is given id 2, the id
\* of the stored second Todo
C18_IdIsCountPlusOne ==
    Did("create") => last.ret.val.id = Cardinality(DOMAIN before) + 1

C18_Witness ==
    /\ Did("create")
    /\ prev.name = "delete"
    /\ prev.id = 1
    /\ DOMAIN before = {2}
    /\ last.ret.val.id = 2

(* ==================== properties of concurrent calls ================== *)
\* every caller's latest call is a create, all of them overlapped, and all
\* have returned
AllCreatesReturned ==
    \A c \in Callers : got[c].tag = "Val" /\ conc[c] = Callers \ {c}

\* C10: concurrent create calls by different callers each receive a distinct
\* id, and once all have returned every resulting entry is in the store
C10_ConcurrentCreates ==
    AllCreatesReturned =>
        /\ \A c, d \in Callers : c # d => got[c].val.id # got[d].val.id
        /\ \A c \in Callers :
              /\ got[c].val.id \in DOMAIN store
              /\ store[got[c].val.id] = got[c].val

(* ================ properties of the lock and of the order ============= *)
\* caller c is inside its critical section: it holds a guard on the store
InCS(c) == pc[c] \in {"cs", "cs2", "rel"}

Writers == {c \in Callers : InCS(c) /\ IsWrite(op[c])}

Readers == {c \in Callers : InCS(c) /\ IsRead(op[c])}

\* C11: at most one of create, update, delete is inside its critical
\* section, and while one is, no find or all is inside its own; find and all
\* calls may be inside theirs together
C11_ReadersWriterExclusion ==
    /\ Cardinality(Writers) <= 1
    /\ Writers # {} => Readers = {}

\* two callers inside find / all together
C11_Witness == Cardinality(Readers) >= 2 /\ Writers = {}

\* every iteration order of the map's values
Values(m) ==
    LET n == Cardinality(DOMAIN m)
        orders == {f \in [1..n -> DOMAIN m] :
                      \A i, j \in 1..n : i # j => f[i] # f[j]}
    IN {[i \in 1..n |-> m[f[i]]] : f \in orders}

\* the outcomes <<store after, result>> of operation o run alone on store m
Alone(m, o) ==
    IF o.name = "create"
    THEN LET t == [id |-> Cardinality(DOMAIN m) + 1, text |-> o.payload.text,
                   completed |-> FALSE]
         IN {<<[x \in (DOMAIN m) \cup {t.id} |-> IF x = t.id THEN t ELSE m[x]],
               [tag |-> "Val", val |-> t]>>}
    ELSE IF o.name = "find"
    THEN {<<m, IF o.id \in DOMAIN m THEN [tag |-> "Some", val |-> m[o.id]]
               ELSE [tag |-> "None"]>>}
    ELSE IF o.name = "all"
    THEN {<<m, [tag |-> "Vec", val |-> s]>> : s \in Values(m)}
    ELSE IF o.name = "update"
    THEN IF o.id \in DOMAIN m
         THEN LET t == [id |-> o.id,
                        text |-> IF o.payload.text.tag = "Some"
                                 THEN o.payload.text.val ELSE m[o.id].text,
                        completed |-> IF o.payload.completed.tag = "Some"
                                      THEN o.payload.completed.val
                                      ELSE m[o.id].completed]
              IN {<<[m EXCEPT ![o.id] = t], [tag |-> "Ok", val |-> t]>>}
         ELSE {<<m, [tag |-> "Err", val |-> [kind |-> "NotFound", id |-> o.id]]>>}
    ELSE IF o.id \in DOMAIN m
         THEN {<<[x \in (DOMAIN m) \ {o.id} |-> m[x]],
                 [tag |-> "Ok", val |-> [unit |-> TRUE]]>>}
         ELSE {<<m, [tag |-> "Err", val |-> [kind |-> "NotFound", id |-> o.id]]>>}

\* the step in which caller c's operation produces its result
Completes(c) == pc[c] \in {"cs", "cs2"} /\ pc'[c] = "rel"

\* C12: the concurrent calls are equivalent to running them one at a time
\* in the order in which they produce their results: each call's result and
\* the store it leaves are those of the call run alone on the store as it is
\* at that point (so all() returns the store content of one point), and no
\* other step changes the store
C12_Linearizable ==
    [][/\ \A c \in Callers :
             Completes(c) => <<store', ret'[c]>> \in Alone(store, op[c])
       /\ (\A c \in Callers : ~Completes(c)) => store' = store]_vars

\* an all() has returned two values while a writer waits for the lock
C12_Witness ==
    \E c, d \in Callers :
        /\ pc[c] = "rel"
        /\ op[c].name = "all"
        /\ Len(ret[c].val) = 2
        /\ pc[d] = "wait"
        /\ IsWrite(op[d])

\* C17: all handles point to one container: what find returns through any
\* handle is what the store of the repository made by new() holds, whichever
\* handle the Todo was created or deleted through
C17_ClonesShareStore ==
    \A c \in Callers :
        /\ arc[c] # NoHandle => arc[c] = Root
        /\ (pc[c] = "rel" /\ op[c].name = "find") =>
              ret[c] = (IF op[c].id \in DOMAIN store
                        THEN [tag |-> "Some", val |-> store[op[c].id]]
                        ELSE [tag |-> "None"])

\* a find through one handle has returned the Todo that the latest call
\* through another handle created
C17_Witness ==
    \E c, d \in Callers :
        /\ c # d
        /\ done[d].name = "create"
        /\ pc[c] = "rel"
        /\ op[c].name = "find"
        /\ op[c].id = done[d].id
        /\ ret[c].tag = "Some"

\* C19: an update between its lookup and its overwrite is not interleaved
\* with any write: the store does not change while it is there. (Between two
\* calls of one caller another caller's delete can run: see the witness.)
C19_UpdateNotInterleaved ==
    [][\A c \in Callers :
          (pc[c] = "cs2" /\ pc'[c] = "cs2") => Data(c)' = Data(c)]_vars

\* caller c's find(id) returned a Todo and its next call, update(id, ..),
\* has returned NotFound
C19_Witness ==
    \E c \in Callers :
        /\ done[c].name = "find"
        /\ done[c].found
        /\ pc[c] = "rel"
        /\ op[c].name = "update"
        /\ op[c].id = done[c].id
        /\ ret[c].tag = "Err"

\* a call that is not inside a method body holds no guard: each guard taken
\* has been dropped at return, whatever the result
GuardDropped ==
    \A c \in Callers :
        pc[c] \in {"idle", "wait"} => lock.writer # c /\ c \notin lock.readers

\* a call that holds its guard can take its next step
NeverWaitsInside == \A c \in Callers : InCS(c) => ENABLED Runs(c)

\* when calls are pending one of them can take a step
NoDeadlock ==
    (\E c \in Callers : pc[c] # "idle") =>
        \E c \in Callers : ENABLED (Acquire(c) \/ Runs(c))

\* the lock admits every call that waits for it
FairGranting == \A c \in Callers : pc[c] = "wait" ~> pc[c] # "wait"

\* every invoked call returns
Completion == \A c \in Callers : pc[c] # "idle" ~> pc[c] = "idle"

\* C20: every guard taken is dropped when the call returns, on the success
\* and the not-found path alike; a call holding its guard never waits; no
\* state with pending calls is a deadlock; and when the lock admits every
\* waiting call, every invoked create, find, all, update and delete returns
C20_DeadlockFreeAndCompletes ==
    /\ [](GuardDropped /\ NeverWaitsInside /\ NoDeadlock)
    /\ FairGranting => Completion

\* a call is about to return NotFound while another call waits for the lock
C20_Witness ==
    \E c, d \in Callers :
        /\ pc[c] = "rel"
        /\ ret[c].tag = "Err"
        /\ pc[d] = "wait"
        /\ IsWrite(op[d])

TypeOK ==
    /\ DOMAIN heap = {Root}
    /\ DOMAIN store \subseteq 1..(MaxStore + NumCallers - 1)
    /\ lock.writer \in Callers \cup {NoWriter}
    /\ lock.readers \subseteq Callers
    /\ \A c \in Callers : arc[c] \in {NoHandle, Root}
    /\ \A c \in Callers : pc[c] \in {"idle", "wait", "cs", "cs2", "rel"}

====
